---- MODULE Spec2Model ----
(***************************************************************************)
(* Booking store, change triggers and credential lifecycle of the prayer   *)
(* room booking system (src/functions/index.js).                           *)
(*                                                                         *)
(* The store holds the booking documents.  Every write to the store fires  *)
(* a change trigger (onCreate / onUpdate / onDelete); the trigger's        *)
(* handler runs asynchronously, one step per awaited call.  Handlers of    *)
(* different documents interleave freely; handlers of one document run in  *)
(* the order of the writes that fired them.                                *)
(***************************************************************************)
EXTENDS Integers, Sequences, FiniteSets, Bags, TLC

(* ---- bounds of the model ---- *)

\* number of documents ever created in the bookings collection
MaxBookings == 2
\* number of client writes to the collection (create, reschedule, cancel, delete, join)
MaxWrites == 3
\* number of transient failures of store calls (query, update, add) in FaultSpec
MaxFaults == 1

(* ---- values ---- *)

\* a field that is absent from a document (JavaScript undefined)
Undefined == "undefined"

\* the (date, time) slots of the model: new bookings are placed on NewSlot
\* (one kind of booking also on OtherSlot), a reschedule moves a booking to
\* any other slot
NewSlot == <<"2026-01-16", "14:00">>
OtherSlot == <<"2026-01-16", "15:00">>
Slots == {NewSlot, OtherSlot, <<"2026-01-17", "14:00">>}

\* 4-digit access codes the gateway may hand out (two representatives)
AccessCodes == {1000, 9999}

\* src/functions/index.js:38-40
RESOURCE_MAPPING == [r \in {"prayer_room"} |-> "YOUR_INLET_LOCK_ID"]

SlotTakenMsg == "Time slot is no longer available"
StoreFaultMsg == "store call failed"
NotFoundMsg == "No document to update"
UndefinedValueMsg == "Cannot use undefined as a Firestore value"

NoMappingMsg(resourceId) == "No INLET lock mapping for resource: " \o resourceId

\* the absent inlet sub-record of a booking (booking.inlet is undefined)
NoInlet == [credentialId |-> 0, code |-> 0]

\* no credential held in a handler's local variable
NoCredential == [id |-> 0, accessCode |-> 0]

(* ---- pure helpers ---- *)

DayNumber(dateStr) == IF dateStr = "2026-01-16" THEN 16 ELSE 17

HourNumber(timeStr) == IF timeStr = "14:00" THEN 14 ELSE 15

\* parseBookingDateTime: the instant of (date, time), in minutes since
\* 2026-01-01T00:00 local time
parseBookingDateTime(dateStr, timeStr) ==
    (DayNumber(dateStr) - 1) * 1440 + HourNumber(timeStr) * 60

\* 60 * 60 * 1000 ms, in minutes
SlotMinutes == 60

\* the current time (new Date()) while the system runs: 11:00 on the day of
\* NewSlot, three hours before its start
Now == parseBookingDateTime("2026-01-16", "14:00") - 180

\* the lead time of renderCalendar, 4 * 60 * 60 * 1000 ms, in minutes
LeadMinutes == 240

\* the times at which the calendar a visitor books from was rendered: two
\* hours ago, or just now
RenderTimes == {Now - 120, Now}

\* renderCalendar: the slots that were not marked unavailable for being
\* earlier than the rendering time plus the lead time
SelectableSlots ==
    {slot \in Slots :
        \E now \in RenderTimes :
            ~(parseBookingDateTime(slot[1], slot[2]) < now + LeadMinutes)}

\* booking.inlet && booking.inlet.credentialId
HasCredential(booking) == booking.inlet.credentialId # 0

\* booking.email || booking.hostEmail
MailTo(booking) ==
    IF booking.email # Undefined THEN booking.email ELSE booking.hostEmail

\* a variant of ResourceOf without the default resource
ResourceOf_NoDefault(booking) == booking.resourceId

\* booking.resourceId || 'prayer_room'
ResourceOf(booking) ==
    IF booking.resourceId # Undefined THEN booking.resourceId ELSE "prayer_room"

VARIABLES
    bookings,     \* the bookings collection: document id -> document
    nextId,       \* next document id the store assigns
    triggers,     \* document id -> its change-trigger invocations in flight, oldest first
    uncaught,     \* the handlers that ended with an uncaught exception
    credentials,  \* the access-control system: credential id -> credential
    mail,         \* the mail collection (append-only)
    bookedSlots,  \* the booking page's mirror of the class bookings (onSnapshot)
    budget,       \* what the environment may still do: creates, writes, faults
    page          \* one visitor's booking page: its globals, listeners and modal

\* the store, its triggers, the gateway and the mail queue
storeVars == <<bookings, nextId, triggers, uncaught, credentials, mail, bookedSlots, budget>>

vars == <<storeVars, page>>

(* ---- documents clients write ---- *)

Doc(status, slot, resourceId, email, hostEmail, isClass, maxParticipants) ==
    [status |-> status, date |-> slot[1], time |-> slot[2], resourceId |-> resourceId,
     email |-> email, hostEmail |-> hostEmail, isClass |-> isClass,
     participants |-> IF isClass THEN <<"host">> ELSE <<>>,
     participantCount |-> IF isClass THEN 1 ELSE 0,
     maxParticipants |-> maxParticipants,
     inlet |-> NoInlet, error |-> Undefined]

\* documents of the automatic mode, created with status 'pending' for
\* onBookingCreated: a regular booking, a class, a booking of a resource
\* without lock mapping, a booking that carries no email address, and a
\* regular booking of another slot
PendingDocs ==
    { Doc("pending", NewSlot, Undefined, "a@x.com", Undefined, FALSE, 0),
      Doc("pending", NewSlot, "prayer_room", Undefined, "h@x.com", TRUE, 2),
      Doc("pending", NewSlot, "other", "a@x.com", Undefined, FALSE, 0),
      Doc("pending", NewSlot, Undefined, Undefined, Undefined, FALSE, 0),
      Doc("pending", OtherSlot, Undefined, "a@x.com", Undefined, FALSE, 0) }

\* what a visitor may type into the max-participants field (0 also stands
\* for an empty field: parseInt gives NaN)
EnteredMaxParticipants == {-1, 0, 2}

\* parseInt(value) || 8
maxParticipantsOf(entered) == IF entered = 0 THEN 8 ELSE entered

\* documents handleBookingSubmit writes: neither status nor (for a regular
\* booking) email
PageDocs ==
    { Doc(Undefined, selectedSlot, Undefined, Undefined, Undefined, FALSE, 0) :
        selectedSlot \in {NewSlot} \cap SelectableSlots }
    \cup { Doc(Undefined, selectedSlot, Undefined, Undefined, "h@x.com", TRUE,
              maxParticipantsOf(entered)) :
            selectedSlot \in {NewSlot} \cap SelectableSlots,
            entered \in EnteredMaxParticipants }

(* ---- the store and its change triggers ---- *)

Trigger(kind, id, before, after) ==
    [kind |-> kind, id |-> id, before |-> before, after |-> after,
     pc |-> "start", credential |-> NoCredential, error |-> Undefined]

\* handlers of one document run in the order of the writes that fired them:
\* the handler in flight for a document is the head of its queue
InFlight(id) == Head(triggers[id])

\* the part of bookedSlots that handleJoinClass reads: the class bookings
Mirror(store) ==
    [id \in {c \in DOMAIN store : store[c].isClass} |->
        [participants |-> store[id].participants,
         participantCount |-> store[id].participantCount,
         maxParticipants |-> store[id].maxParticipants]]

EmptyStore == [id \in {} |-> NoInlet]

Budget(creates, writes, faults) ==
    [creates |-> creates, writes |-> writes, faults |-> faults]

\* no slot selected (selectedSlot is null)
NoSlot == <<>>

\* the modal of the page: closed, the booking form, or one of the screens
\* that replace the form
Modal(kind, bookingId, accessCode) ==
    [kind |-> kind, bookingId |-> bookingId, accessCode |-> accessCode]

ClosedModal == Modal("closed", 0, 0)

\* the page when the document has been parsed and no script has run: the
\* globals as declared, nothing registered, and what localStorage holds
ParsedPage(storedBookings, storedMyBookings) ==
    [loaded |-> FALSE,
     firebaseReady |-> FALSE,
     readyListener |-> FALSE,
     timer |-> "none",
     initCalendarRuns |-> 0,
     submitListeners |-> {},
     weekListeners |-> 0,
     snapshotListeners |-> 0,
     bookedSlots |-> EmptyStore,
     storedBookings |-> storedBookings,
     myBookings |-> EmptyStore,
     storedMyBookings |-> storedMyBookings,
     selectedSlot |-> NoSlot,
     modal |-> ClosedModal]

InitWith(b) ==
    /\ page = ParsedPage(EmptyStore, EmptyStore)
    /\ bookings = EmptyStore
    /\ nextId = 1
    /\ triggers = <<>>
    /\ uncaught = {}
    /\ credentials = <<>>
    /\ mail = EmptyBag
    /\ bookedSlots = EmptyStore
    /\ budget = b

\* the store never fails transiently
Init == InitWith(Budget(MaxBookings, MaxWrites, 0))

\* store calls may fail transiently
FaultInit == InitWith(Budget(MaxBookings, MaxWrites, MaxFaults))

\* addDoc: the store assigns the id and fires onCreate
CreateBooking(doc) ==
    /\ budget.creates > 0
    /\ budget.writes > 0
    /\ budget' = [budget EXCEPT !.creates = @ - 1, !.writes = @ - 1]
    /\ bookings' = (nextId :> doc) @@ bookings
    /\ nextId' = nextId + 1
    /\ triggers' = (nextId :> <<Trigger("create", nextId, doc, doc)>>) @@ triggers
    /\ UNCHANGED <<uncaught, credentials, mail, bookedSlots>>

\* update of an existing document by a client or by a handler: fires onUpdate
UpdatedStore(id, after) == [bookings EXCEPT ![id] = after]

UpdateTrigger(id, after) == Trigger("update", id, bookings[id], after)

\* a client write to an existing document
ClientUpdate(id, after) ==
    /\ budget.writes > 0
    /\ budget' = [budget EXCEPT !.writes = @ - 1]
    /\ bookings' = UpdatedStore(id, after)
    /\ triggers' = [triggers EXCEPT ![id] = Append(@, UpdateTrigger(id, after))]
    /\ UNCHANGED <<nextId, uncaught, credentials, mail, bookedSlots>>

\* a client moves a booking to another date or time
Reschedule(id, slot) ==
    /\ id \in DOMAIN bookings
    /\ slot # <<bookings[id].date, bookings[id].time>>
    /\ ClientUpdate(id, [bookings[id] EXCEPT !.date = slot[1], !.time = slot[2]])

\* a client cancels a booking by setting status to 'cancelled'
Cancel(id) ==
    /\ id \in DOMAIN bookings
    /\ bookings[id].status # "cancelled"
    /\ ClientUpdate(id, [bookings[id] EXCEPT !.status = "cancelled"])

\* a client cancels a booking and moves it to another date or time in one write
CancelAndReschedule(id, slot) ==
    /\ id \in DOMAIN bookings
    /\ bookings[id].status # "cancelled"
    /\ slot # <<bookings[id].date, bookings[id].time>>
    /\ ClientUpdate(id, [bookings[id] EXCEPT !.status = "cancelled",
                                             !.date = slot[1], !.time = slot[2]])

\* confirmCancelBooking: the page deletes the document; fires onDelete
DeleteBooking(id) ==
    /\ budget.writes > 0
    /\ budget' = [budget EXCEPT !.writes = @ - 1]
    /\ id \in DOMAIN bookings
    /\ bookings' = [i \in DOMAIN bookings \ {id} |-> bookings[i]]
    /\ triggers' = [triggers EXCEPT ![id] =
                        Append(@, Trigger("delete", id, bookings[id], bookings[id]))]
    /\ UNCHANGED <<nextId, uncaught, credentials, mail, bookedSlots>>

\* the onSnapshot listener of loadBookings replaces bookedSlots by the collection
Snapshot ==
    /\ bookedSlots # Mirror(bookings)
    /\ bookedSlots' = Mirror(bookings)
    /\ UNCHANGED <<bookings, nextId, triggers, uncaught, credentials, mail, budget>>

\* a variant of JoinRejected without the capacity test
JoinRejected_NoCapacityTest(id) ==
    id \notin DOMAIN bookedSlots

\* handleJoinClass: the tests on the mirrored copy that end the join with an
\* error ('Booking not found' for a missing or non-class booking, 'Class is
\* full')
JoinRejected(id) ==
    \/ id \notin DOMAIN bookedSlots
    \/ bookedSlots[id].participantCount >= bookedSlots[id].maxParticipants

\* handleJoinClass: checks the mirrored copy, then writes participants and
\* participantCount computed from that copy; a rejected join, and one whose
\* update fails because the document is gone, only shows the error
JoinClass(id, joinName) ==
    IF JoinRejected(id) \/ id \notin DOMAIN bookings
    THEN UNCHANGED vars
    ELSE LET updatedParticipants == Append(bookedSlots[id].participants, joinName)
         IN ClientUpdate(id, [bookings[id] EXCEPT
                                 !.participants = updatedParticipants,
                                 !.participantCount = Len(updatedParticipants)])

(* ---- the access-control gateway ---- *)

\* createInletCredential: throws for a resource without lock mapping
CanCreateCredential(resourceId) == resourceId \in DOMAIN RESOURCE_MAPPING

\* a variant of IssuedCredential whose window ends at the end of the day
IssuedCredential_UntilMidnight(bookingId, booking, accessCode) ==
    [id |-> Len(credentials) + 1,
     accessCode |-> accessCode,
     lockId |-> RESOURCE_MAPPING[ResourceOf(booking)],
     startTime |-> parseBookingDateTime(booking.date, booking.time),
     endTime |-> DayNumber(booking.date) * 1440,
     bookingId |-> bookingId,
     held |-> FALSE,
     revokeCalls |-> 0]

\* createInletCredential: the credential the gateway then holds; its id is
\* 'inlet_cred_' + Date.now(), taken as distinct for every call.  bookingId,
\* held and revokeCalls are bookkeeping: the booking the credential was created
\* for, whether a booking document ever recorded it, and the number of
\* revokeInletCredential calls made with its id
IssuedCredential(bookingId, booking, accessCode) ==
    [id |-> Len(credentials) + 1,
     accessCode |-> accessCode,
     lockId |-> RESOURCE_MAPPING[ResourceOf(booking)],
     startTime |-> parseBookingDateTime(booking.date, booking.time),
     endTime |-> parseBookingDateTime(booking.date, booking.time) + SlotMinutes,
     bookingId |-> bookingId,
     held |-> FALSE,
     revokeCalls |-> 0]

\* a variant of Revoked in which a second call takes the revocation back
Revoked_SecondCallRestores(credentialId) ==
    [credentials EXCEPT ![credentialId].revokeCalls = IF @ = 0 THEN 1 ELSE 0]

\* revokeInletCredential: the gateway after the call (never fails)
Revoked(credentialId) ==
    [credentials EXCEPT ![credentialId].revokeCalls = @ + 1]

\* a variant of InletOf that records another code than the gateway returned
InletOf_OtherCode(credential) == [credentialId |-> credential.id, code |-> 0]

\* the inlet sub-record written for a credential
InletOf(credential) == [credentialId |-> credential.id, code |-> credential.accessCode]

\* the gateway's bookkeeping once a booking document records the credential
Recorded(credentialId) == [credentials EXCEPT ![credentialId].held = TRUE]

(* ---- helpers of the handlers ---- *)

\* a variant of validateSlotFree whose query leaves out the confirmed bookings
validateSlotFree_PendingOnly(date, time, excludeBookingId) ==
    ~ \E id \in DOMAIN bookings :
        /\ bookings[id].date = date
        /\ bookings[id].time = time
        /\ bookings[id].status \in {"pending"}
        /\ id # excludeBookingId

\* a variant of validateSlotFree that does not leave out excludeBookingId
validateSlotFree_NoExclude(date, time, excludeBookingId) ==
    LET snapshot == {id \in DOMAIN bookings :
                        /\ bookings[id].date = date
                        /\ bookings[id].time = time
                        /\ bookings[id].status \in {"confirmed", "pending"}}
    IN snapshot = {}

\* validateSlotFree: the query for the confirmed and pending bookings on
\* (date, time), then the loop that returns false at the first document whose
\* id is not excludeBookingId
validateSlotFree(date, time, excludeBookingId) ==
    LET snapshot == {id \in DOMAIN bookings :
                        /\ bookings[id].date = date
                        /\ bookings[id].time = time
                        /\ bookings[id].status \in {"confirmed", "pending"}}
    IN \A id \in snapshot : id = excludeBookingId

\* a mail document of the Trigger Email extension (bookingId is not stored:
\* it records which booking the mail was queued for)
Mail(to, name, accessCode, bookingId) ==
    [to |-> to, template |-> name, accessCode |-> accessCode, bookingId |-> bookingId]

Running(id, kind, pc) ==
    /\ triggers[id] # <<>>
    /\ InFlight(id).kind = kind
    /\ InFlight(id).pc = pc

\* the handler of document id goes on to its next awaited call
Continue(id, t) ==
    /\ triggers' = [triggers EXCEPT ![id] = <<t>> \o Tail(@)]
    /\ UNCHANGED <<bookings, nextId, uncaught, bookedSlots>>

\* the handler of document id returns
Return(id) ==
    /\ triggers' = [triggers EXCEPT ![id] = Tail(@)]
    /\ UNCHANGED <<bookings, nextId, uncaught, bookedSlots>>

\* the handler of document id ends with an uncaught exception
Throw(id) ==
    /\ triggers' = [triggers EXCEPT ![id] = Tail(@)]
    /\ uncaught' = uncaught \cup {[kind |-> InFlight(id).kind, id |-> id]}
    /\ UNCHANGED <<bookings, nextId, bookedSlots>>

\* the queue of a document after its handler updated the document to `after`,
\* which fires onUpdate when the data changed
Fired(queue, id, after) ==
    IF after = bookings[id] THEN queue ELSE Append(queue, UpdateTrigger(id, after))

ContinueWithUpdate(id, t, after) ==
    /\ bookings' = UpdatedStore(id, after)
    /\ triggers' = [triggers EXCEPT ![id] = Fired(<<t>> \o Tail(@), id, after)]
    /\ UNCHANGED <<nextId, uncaught, bookedSlots>>

ReturnWithUpdate(id, after) ==
    /\ bookings' = UpdatedStore(id, after)
    /\ triggers' = [triggers EXCEPT ![id] = Fired(Tail(@), id, after)]
    /\ UNCHANGED <<nextId, uncaught, bookedSlots>>

\* a store call of a handler fails transiently
Fault ==
    /\ budget.faults > 0
    /\ budget' = [budget EXCEPT !.faults = @ - 1]

(* ---- onBookingCreated ---- *)

\* a variant of IsPending that also takes a document without status
IsPending_OrNoStatus(booking) == booking.status \in {"pending", Undefined}

\* booking.status === 'pending'
IsPending(booking) == booking.status = "pending"

\* a variant of ErrorUpdate that leaves the status as it is
ErrorUpdate_KeepsStatus(booking, message) == [booking EXCEPT !.error = message]

\* the document after the catch block's update({status: 'error', error})
ErrorUpdate(booking, message) ==
    [booking EXCEPT !.status = "error", !.error = message]

\* a variant of OnCreated_Validate that goes on to the gateway call whatever
\* the availability query returned
OnCreated_Validate_NoGate(id) ==
    /\ Running(id, "create", "start")
    /\ LET t == InFlight(id)
       IN IF ~IsPending(t.after)
          THEN Return(id)
          ELSE Continue(id, [t EXCEPT !.pc = "createCredential"])
    /\ UNCHANGED <<credentials, mail, budget>>

\* the status test and the availability query
OnCreated_Validate(id) ==
    /\ Running(id, "create", "start")
    /\ LET t == InFlight(id)
           booking == t.after
       IN IF ~IsPending(booking)
          THEN Return(id) /\ UNCHANGED budget
          ELSE \/ /\ Continue(id, [t EXCEPT !.pc =
                        IF validateSlotFree(booking.date, booking.time, id)
                        THEN "createCredential" ELSE "writeConflict"])
                  /\ UNCHANGED budget
               \/ /\ Fault
                  /\ Continue(id, [t EXCEPT !.pc = "catch", !.error = StoreFaultMsg])
    /\ UNCHANGED <<credentials, mail>>

\* snap.ref.update({status: 'conflict', error}), then return
OnCreated_WriteConflict(id) ==
    /\ Running(id, "create", "writeConflict")
    /\ LET t == InFlight(id)
       IN IF id \notin DOMAIN bookings
          THEN Continue(id, [t EXCEPT !.pc = "catch", !.error = NotFoundMsg])
               /\ UNCHANGED budget
          ELSE \/ /\ ReturnWithUpdate(id,
                        [bookings[id] EXCEPT !.status = "conflict",
                                             !.error = SlotTakenMsg])
                  /\ UNCHANGED budget
               \/ /\ Fault
                  /\ Continue(id, [t EXCEPT !.pc = "catch", !.error = StoreFaultMsg])
    /\ UNCHANGED <<credentials, mail>>

\* createInletCredential for the slot of the created document
OnCreated_CreateCredential(id) ==
    /\ Running(id, "create", "createCredential")
    /\ LET t == InFlight(id)
           booking == t.after
       IN IF ~CanCreateCredential(ResourceOf(booking))
          THEN /\ Continue(id, [t EXCEPT !.pc = "catch",
                                        !.error = NoMappingMsg(ResourceOf(booking))])
               /\ UNCHANGED credentials
          ELSE \E accessCode \in AccessCodes :
                 LET credential == IssuedCredential(id, booking, accessCode)
                 IN /\ credentials' = Append(credentials, credential)
                    /\ Continue(id, [t EXCEPT !.pc = "writeConfirmed",
                                      !.credential = [id |-> credential.id,
                                                      accessCode |-> accessCode]])
    /\ UNCHANGED <<mail, budget>>

\* snap.ref.update({status: 'confirmed', inlet})
OnCreated_WriteConfirmed(id) ==
    /\ Running(id, "create", "writeConfirmed")
    /\ LET t == InFlight(id)
       IN IF id \notin DOMAIN bookings
          THEN Continue(id, [t EXCEPT !.pc = "catch", !.error = NotFoundMsg])
               /\ UNCHANGED <<credentials, budget>>
          ELSE \/ /\ ContinueWithUpdate(id, [t EXCEPT !.pc = "queueEmail"],
                        [bookings[id] EXCEPT !.status = "confirmed",
                                             !.inlet = InletOf(t.credential)])
                  /\ credentials' = Recorded(t.credential.id)
                  /\ UNCHANGED budget
               \/ /\ Fault
                  /\ Continue(id, [t EXCEPT !.pc = "catch", !.error = StoreFaultMsg])
                  /\ UNCHANGED credentials
    /\ UNCHANGED mail

\* queueConfirmationEmail(booking, credential), then return
OnCreated_QueueEmail(id) ==
    /\ Running(id, "create", "queueEmail")
    /\ LET t == InFlight(id)
           booking == t.after
       IN IF MailTo(booking) = Undefined
          THEN /\ Continue(id, [t EXCEPT !.pc = "catch", !.error = UndefinedValueMsg])
               /\ UNCHANGED <<mail, budget>>
          ELSE \/ /\ mail' = mail (+) SetToBag({Mail(MailTo(booking),
                                "booking-confirmation", t.credential.accessCode, id)})
                  /\ Return(id)
                  /\ UNCHANGED budget
               \/ /\ Fault
                  /\ Continue(id, [t EXCEPT !.pc = "catch", !.error = StoreFaultMsg])
                  /\ UNCHANGED mail
    /\ UNCHANGED credentials

\* the catch block: snap.ref.update({status: 'error', error: error.message});
\* nothing catches an exception of this update
OnCreated_Catch(id) ==
    /\ Running(id, "create", "catch")
    /\ LET t == InFlight(id)
       IN IF id \notin DOMAIN bookings
          THEN Throw(id) /\ UNCHANGED budget
          ELSE \/ /\ ReturnWithUpdate(id, ErrorUpdate(bookings[id], t.error))
                  /\ UNCHANGED <<uncaught, budget>>
               \/ /\ Fault
                  /\ Throw(id)
    /\ UNCHANGED <<credentials, mail>>

(* ---- onBookingUpdated ---- *)

\* a variant of UpdateRoute that replaces the credential on every update of
\* a booking that holds one
UpdateRoute_AnyChange(before, after) ==
    IF after.status = "cancelled" /\ before.status # "cancelled"
    THEN IF HasCredential(before) THEN "cancelRevoke" ELSE "cancelEmail"
    ELSE IF HasCredential(before) THEN "changeRevoke" ELSE "done"

\* a variant of UpdateRoute that replaces the credential of a moved booking
\* also when it held none
UpdateRoute_IssuesOnMove(before, after) ==
    IF after.status = "cancelled" /\ before.status # "cancelled"
    THEN IF HasCredential(before) THEN "cancelRevoke" ELSE "cancelEmail"
    ELSE IF before.date # after.date \/ before.time # after.time
         THEN IF HasCredential(before) THEN "changeRevoke" ELSE "changeCreate"
         ELSE "done"

\* a variant of UpdateRoute that tests the time change first
UpdateRoute_TimeChangeFirst(before, after) ==
    IF before.date # after.date \/ before.time # after.time
    THEN IF HasCredential(before) THEN "changeRevoke" ELSE "done"
    ELSE IF after.status = "cancelled" /\ before.status # "cancelled"
         THEN IF HasCredential(before) THEN "cancelRevoke" ELSE "cancelEmail"
         ELSE "done"

\* a variant of UpdateRoute that also replaces the credential when the inlet
\* sub-record of a booking with a credential was changed
UpdateRoute_OnInletChange(before, after) ==
    IF after.status = "cancelled" /\ before.status # "cancelled"
    THEN IF HasCredential(before) THEN "cancelRevoke" ELSE "cancelEmail"
    ELSE IF \/ before.date # after.date
            \/ before.time # after.time
            \/ before.inlet # after.inlet
         THEN IF HasCredential(before) THEN "changeRevoke" ELSE "done"
         ELSE "done"

\* the two tests of onBookingUpdated and the credential tests of
\* handleBookingCancellation and handleTimeChange
UpdateRoute(before, after) ==
    IF after.status = "cancelled" /\ before.status # "cancelled"
    THEN IF HasCredential(before) THEN "cancelRevoke" ELSE "cancelEmail"
    ELSE IF before.date # after.date \/ before.time # after.time
         THEN IF HasCredential(before) THEN "changeRevoke" ELSE "done"
         ELSE "done"

OnUpdated_Dispatch(id) ==
    /\ Running(id, "update", "start")
    /\ LET t == InFlight(id)
           route == UpdateRoute(t.before, t.after)
       IN IF route = "done" THEN Return(id) ELSE Continue(id, [t EXCEPT !.pc = route])
    /\ UNCHANGED <<credentials, mail, budget>>

\* handleBookingCancellation: revokeInletCredential(booking.inlet.credentialId)
Cancellation_Revoke(id) ==
    /\ Running(id, "update", "cancelRevoke")
    /\ credentials' = Revoked(InFlight(id).before.inlet.credentialId)
    /\ Continue(id, [InFlight(id) EXCEPT !.pc = "cancelEmail"])
    /\ UNCHANGED <<mail, budget>>

\* handleBookingCancellation: queueCancellationEmail(booking); nothing catches
\* an exception of the add
Cancellation_QueueEmail(id) ==
    /\ Running(id, "update", "cancelEmail")
    /\ LET t == InFlight(id)
           booking == t.before
       IN IF MailTo(booking) = Undefined
          THEN Throw(id) /\ UNCHANGED <<mail, budget>>
          ELSE \/ /\ mail' = mail (+) SetToBag({Mail(MailTo(booking),
                                "booking-cancellation", 0, id)})
                  /\ Return(id)
                  /\ UNCHANGED budget
               \/ /\ Fault
                  /\ Throw(id)
                  /\ UNCHANGED mail
    /\ UNCHANGED credentials

\* handleTimeChange: revokeInletCredential(before.inlet.credentialId)
TimeChange_Revoke(id) ==
    /\ Running(id, "update", "changeRevoke")
    /\ credentials' = Revoked(InFlight(id).before.inlet.credentialId)
    /\ Continue(id, [InFlight(id) EXCEPT !.pc = "changeCreate"])
    /\ UNCHANGED <<mail, budget>>

\* handleTimeChange: createInletCredential for the new date and time
TimeChange_CreateCredential(id) ==
    /\ Running(id, "update", "changeCreate")
    /\ LET t == InFlight(id)
           after == t.after
       IN IF ~CanCreateCredential(ResourceOf(after))
          THEN Throw(id) /\ UNCHANGED credentials
          ELSE \E accessCode \in AccessCodes :
                 LET newCredential == IssuedCredential(id, after, accessCode)
                 IN /\ credentials' = Append(credentials, newCredential)
                    /\ Continue(id, [t EXCEPT !.pc = "changeWrite",
                                      !.credential = [id |-> newCredential.id,
                                                      accessCode |-> accessCode]])
    /\ UNCHANGED <<mail, budget>>

\* handleTimeChange: db.collection('bookings').doc(bookingId).update({inlet})
TimeChange_Write(id) ==
    /\ Running(id, "update", "changeWrite")
    /\ LET t == InFlight(id)
       IN IF id \notin DOMAIN bookings
          THEN Throw(id) /\ UNCHANGED <<credentials, budget>>
          ELSE \/ /\ ContinueWithUpdate(id, [t EXCEPT !.pc = "changeEmail"],
                        [bookings[id] EXCEPT !.inlet = InletOf(t.credential)])
                  /\ credentials' = Recorded(t.credential.id)
                  /\ UNCHANGED budget
               \/ /\ Fault
                  /\ Throw(id)
                  /\ UNCHANGED credentials
    /\ UNCHANGED mail

\* handleTimeChange: queueUpdateEmail(after, newCredential), then return
TimeChange_QueueEmail(id) ==
    /\ Running(id, "update", "changeEmail")
    /\ LET t == InFlight(id)
           after == t.after
       IN IF MailTo(after) = Undefined
          THEN Throw(id) /\ UNCHANGED <<mail, budget>>
          ELSE \/ /\ mail' = mail (+) SetToBag({Mail(MailTo(after),
                                "booking-update", t.credential.accessCode, id)})
                  /\ Return(id)
                  /\ UNCHANGED budget
               \/ /\ Fault
                  /\ Throw(id)
                  /\ UNCHANGED mail
    /\ UNCHANGED credentials

(* ---- onBookingDeleted ---- *)

\* a variant of OnBookingDeleted that leaves the credential alone
OnBookingDeleted_NoRevoke(id) ==
    /\ Running(id, "delete", "start")
    /\ Return(id)
    /\ UNCHANGED <<credentials, mail, budget>>

OnBookingDeleted(id) ==
    /\ Running(id, "delete", "start")
    /\ LET booking == InFlight(id).before
       IN credentials' = IF HasCredential(booking)
                         THEN Revoked(booking.inlet.credentialId)
                         ELSE credentials
    /\ Return(id)
    /\ UNCHANGED <<mail, budget>>

(* ---- the system ---- *)

Next ==
    \/ \E doc \in PendingDocs \cup PageDocs : CreateBooking(doc) /\ UNCHANGED page
    \/ \E id \in DOMAIN bookings, slot \in Slots : Reschedule(id, slot) /\ UNCHANGED page
    \/ \E id \in DOMAIN bookings : Cancel(id) /\ UNCHANGED page
    \/ \E id \in DOMAIN bookings, slot \in Slots : CancelAndReschedule(id, slot) /\ UNCHANGED page
    \/ \E id \in DOMAIN bookings : DeleteBooking(id) /\ UNCHANGED page
    \/ \E id \in DOMAIN triggers : JoinClass(id, "guest") /\ UNCHANGED page
    \/ Snapshot /\ UNCHANGED page
    \/ \E id \in DOMAIN triggers : OnCreated_Validate(id) /\ UNCHANGED page
    \/ \E id \in DOMAIN triggers : OnCreated_WriteConflict(id) /\ UNCHANGED page
    \/ \E id \in DOMAIN triggers : OnCreated_CreateCredential(id) /\ UNCHANGED page
    \/ \E id \in DOMAIN triggers : OnCreated_WriteConfirmed(id) /\ UNCHANGED page
    \/ \E id \in DOMAIN triggers : OnCreated_QueueEmail(id) /\ UNCHANGED page
    \/ \E id \in DOMAIN triggers : OnCreated_Catch(id) /\ UNCHANGED page
    \/ \E id \in DOMAIN triggers : OnUpdated_Dispatch(id) /\ UNCHANGED page
    \/ \E id \in DOMAIN triggers : Cancellation_Revoke(id) /\ UNCHANGED page
    \/ \E id \in DOMAIN triggers : Cancellation_QueueEmail(id) /\ UNCHANGED page
    \/ \E id \in DOMAIN triggers : TimeChange_Revoke(id) /\ UNCHANGED page
    \/ \E id \in DOMAIN triggers : TimeChange_CreateCredential(id) /\ UNCHANGED page
    \/ \E id \in DOMAIN triggers : TimeChange_Write(id) /\ UNCHANGED page
    \/ \E id \in DOMAIN triggers : TimeChange_QueueEmail(id) /\ UNCHANGED page
    \/ \E id \in DOMAIN triggers : OnBookingDeleted(id) /\ UNCHANGED page

\* the system when the store never fails transiently
Spec == Init /\ [][Next]_vars

\* the system when store calls may fail transiently
FaultSpec == FaultInit /\ [][Next]_vars

(* ---- the booking page ---- *)

\* what the page keeps of a booking for the calendar: its (date, time)
SlotOf(date, time) == [date |-> date, time |-> time]

\* the onSnapshot callback of loadBookings: bookedSlots rebuilt from every
\* document of the collection
SnapshotOf(store) ==
    [id \in DOMAIN store |-> SlotOf(store[id].date, store[id].time)]

\* array.filter(b => b.id !== bookingId)
Without(list, bookingId) == [id \in DOMAIN list \ {bookingId} |-> list[id]]

\* array.push of an entry with the given id
Pushed(list, id, entry) == (id :> entry) @@ list

\* isSlotBooked: some entry of bookedSlots has this date and time
isSlotBooked(date, time) ==
    \E id \in DOMAIN page.bookedSlots :
        /\ page.bookedSlots[id].date = date
        /\ page.bookedSlots[id].time = time

\* generateBookingId: an id of the page's own making, taken as distinct for
\* every call and from every id of the store
generateBookingId == 0 - (1 + MaxBookings - budget.creates)

\* initCalendar: loadMyBookings, loadBookings (the snapshot listener, or the
\* copy in localStorage when Firebase is not ready), renderCalendar and the
\* listeners.  The form's submit listener is the function handleBookingSubmit
\* itself, which addEventListener does not register twice; the week buttons
\* get a new arrow function on every run
initCalendar(p) ==
    [p EXCEPT !.initCalendarRuns = @ + 1,
              !.myBookings = p.storedMyBookings,
              !.snapshotListeners = IF p.firebaseReady THEN @ + 1 ELSE @,
              !.bookedSlots = IF p.firebaseReady THEN @ ELSE p.storedBookings,
              !.weekListeners = @ + 1,
              !.submitListeners = @ \cup {"handleBookingSubmit"}]

\* the DOMContentLoaded listener: initCalendar at once when Firebase is
\* ready, else the 'firebase-ready' listener and the 3-second timer
DOMContentLoaded ==
    /\ ~page.loaded
    /\ page' = IF page.firebaseReady
               THEN initCalendar([page EXCEPT !.loaded = TRUE])
               ELSE [page EXCEPT !.loaded = TRUE,
                                 !.readyListener = TRUE,
                                 !.timer = "armed"]
    /\ UNCHANGED storeVars

\* the Firebase module of the page has loaded: it sets window.firebaseReady
\* and dispatches 'firebase-ready', at any time before or after the timer
FirebaseReady ==
    /\ ~page.firebaseReady
    /\ page' = LET ready == [page EXCEPT !.firebaseReady = TRUE]
               IN IF page.readyListener THEN initCalendar(ready) ELSE ready
    /\ UNCHANGED storeVars

\* the callback of setTimeout(..., 3000)
Timeout ==
    /\ page.timer = "armed"
    /\ page' = LET fired == [page EXCEPT !.timer = "fired"]
               IN IF ~page.firebaseReady THEN initCalendar(fired) ELSE fired
    /\ UNCHANGED storeVars

\* location.reload(): the Close button of the success screen
Reload ==
    /\ page.modal.kind = "confirmed"
    /\ page' = ParsedPage(page.storedBookings, page.storedMyBookings)
    /\ UNCHANGED storeVars

\* the onSnapshot callback of loadBookings, saveBookingsToLocalStorage included
OnSnapshot ==
    /\ page.snapshotListeners > 0
    /\ page.bookedSlots # SnapshotOf(bookings)
    /\ page' = [page EXCEPT !.bookedSlots = SnapshotOf(bookings),
                            !.storedBookings = SnapshotOf(bookings)]
    /\ UNCHANGED storeVars

\* a click on a slot that renderCalendar drew as available: neither earlier
\* than the lead time nor booked according to bookedSlots
selectSlot(date, time) ==
    /\ page.initCalendarRuns > 0
    /\ page.modal = ClosedModal
    /\ <<date, time>> \in SelectableSlots
    /\ ~isSlotBooked(date, time)
    /\ page' = [page EXCEPT !.selectedSlot = <<date, time>>,
                            !.modal = Modal("booking", 0, 0)]
    /\ UNCHANGED storeVars

closeBookingModal ==
    /\ page.modal.kind \in {"booking", "cancelled", "cancelFailed"}
    /\ page' = [page EXCEPT !.selectedSlot = NoSlot, !.modal = ClosedModal]
    /\ UNCHANGED storeVars

\* handleBookingSubmit after a save to the store: the id in myBookings and
\* the success screen with the access code the page generated
SavedRemotely(p, id, accessCode) ==
    [p EXCEPT !.myBookings = Pushed(@, id, SlotOf(p.selectedSlot[1], p.selectedSlot[2])),
              !.storedMyBookings =
                  Pushed(p.myBookings, id, SlotOf(p.selectedSlot[1], p.selectedSlot[2])),
              !.modal = Modal("confirmed", id, accessCode)]

\* handleBookingSubmit in the localStorage fallback: the booking also goes to
\* bookedSlots and its copy in localStorage
SavedLocally(p, id, accessCode) ==
    [SavedRemotely(p, id, accessCode) EXCEPT
        !.bookedSlots = Pushed(@, id, SlotOf(p.selectedSlot[1], p.selectedSlot[2])),
        !.storedBookings =
            Pushed(p.bookedSlots, id, SlotOf(p.selectedSlot[1], p.selectedSlot[2]))]

\* handleBookingSubmit: the submit listener of the booking form
handleBookingSubmit(accessCode, isClassBooking) ==
    /\ "handleBookingSubmit" \in page.submitListeners
    /\ page.modal.kind = "booking"
    /\ page.selectedSlot # NoSlot
    /\ budget.creates > 0
    /\ budget.writes > 0
    /\ LET firestoreBooking ==
               IF isClassBooking
               THEN Doc(Undefined, page.selectedSlot, Undefined, Undefined, "h@x.com",
                        TRUE, maxParticipantsOf(0))
               ELSE Doc(Undefined, page.selectedSlot, Undefined, Undefined, Undefined,
                        FALSE, 0)
       IN \/ /\ page.firebaseReady
             /\ CreateBooking(firestoreBooking)
             /\ page' = SavedRemotely(page, nextId, accessCode)
          \/ /\ page.firebaseReady
             /\ budget.faults > 0
             /\ budget' = [budget EXCEPT !.faults = @ - 1, !.creates = @ - 1]
             /\ page' = SavedLocally(page, generateBookingId, accessCode)
             /\ UNCHANGED <<bookings, nextId, triggers, uncaught, credentials, mail,
                            bookedSlots>>
          \/ /\ ~page.firebaseReady
             /\ budget' = [budget EXCEPT !.creates = @ - 1]
             /\ page' = SavedLocally(page, generateBookingId, accessCode)
             /\ UNCHANGED <<bookings, nextId, triggers, uncaught, credentials, mail,
                            bookedSlots>>

\* a variant of CancelFailed that removes the booking from the page's lists
CancelFailed_RemovesLocally(p, bookingId) ==
    [p EXCEPT !.myBookings = Without(@, bookingId),
              !.bookedSlots = Without(@, bookingId),
              !.modal = Modal("cancelFailed", bookingId, 0)]

\* confirmCancelBooking, the catch block: the error screen
CancelFailed(p, bookingId) ==
    [p EXCEPT !.modal = Modal("cancelFailed", bookingId, 0)]

\* confirmCancelBooking after the delete: the booking leaves myBookings and
\* bookedSlots, both are saved to localStorage, and the success screen
CancelDone(p, bookingId) ==
    [p EXCEPT !.myBookings = Without(@, bookingId),
              !.storedMyBookings = Without(p.myBookings, bookingId),
              !.bookedSlots = Without(@, bookingId),
              !.storedBookings = Without(p.bookedSlots, bookingId),
              !.modal = Modal("cancelled", bookingId, 0)]

\* confirmCancelBooking for a booking of the visitor's own that the calendar
\* shows: deleteDoc when Firebase is ready (deleting a document that is gone
\* succeeds and fires nothing), then the page's lists
confirmCancelBooking(bookingId) ==
    /\ page.initCalendarRuns > 0
    /\ page.modal = ClosedModal
    /\ bookingId \in DOMAIN page.myBookings \cap DOMAIN page.bookedSlots
    /\ \/ /\ page.firebaseReady
          /\ bookingId \in DOMAIN bookings
          /\ DeleteBooking(bookingId)
          /\ page' = CancelDone(page, bookingId)
       \/ /\ page.firebaseReady
          /\ bookingId \notin DOMAIN bookings
          /\ page' = CancelDone(page, bookingId)
          /\ UNCHANGED storeVars
       \/ /\ page.firebaseReady
          /\ Fault
          /\ page' = CancelFailed(page, bookingId)
          /\ UNCHANGED <<bookings, nextId, triggers, uncaught, credentials, mail,
                         bookedSlots>>
       \/ /\ ~page.firebaseReady
          /\ page' = CancelDone(page, bookingId)
          /\ UNCHANGED storeVars

\* what the store may hold when the page is opened: nothing; a booking that
\* ended in error for a resource without lock mapping; a confirmed booking
\* with its credential and mail; that booking after its cancellation
StoredBooking(status, resourceId, credentialId, error) ==
    [Doc(status, NewSlot, resourceId, "a@x.com", Undefined, FALSE, 0) EXCEPT
        !.inlet = [credentialId |-> credentialId,
                   code |-> IF credentialId = 0 THEN 0 ELSE 1000],
        !.error = error]

StoredCredential(revokeCalls) ==
    [id |-> 1,
     accessCode |-> 1000,
     lockId |-> RESOURCE_MAPPING["prayer_room"],
     startTime |-> parseBookingDateTime(NewSlot[1], NewSlot[2]),
     endTime |-> parseBookingDateTime(NewSlot[1], NewSlot[2]) + SlotMinutes,
     bookingId |-> 1,
     held |-> TRUE,
     revokeCalls |-> revokeCalls]

OpeningStores ==
    { [bookings |-> EmptyStore, credentials |-> <<>>, mail |-> EmptyBag],
      [bookings |-> 1 :> StoredBooking("error", "other", 0, NoMappingMsg("other")),
       credentials |-> <<>>,
       mail |-> EmptyBag],
      [bookings |-> 1 :> StoredBooking("confirmed", Undefined, 1, Undefined),
       credentials |-> <<StoredCredential(0)>>,
       mail |-> SetToBag({Mail("a@x.com", "booking-confirmation", 1000, 1)})],
      [bookings |-> 1 :> StoredBooking("cancelled", Undefined, 1, Undefined),
       credentials |-> <<StoredCredential(1)>>,
       mail |-> SetToBag({Mail("a@x.com", "booking-confirmation", 1000, 1),
                          Mail("a@x.com", "booking-cancellation", 0, 1)})] }

PageInit ==
    \E opening \in OpeningStores :
        /\ bookings = opening.bookings
        /\ nextId = Cardinality(DOMAIN opening.bookings) + 1
        /\ triggers = [id \in DOMAIN opening.bookings |-> <<>>]
        /\ uncaught = {}
        /\ credentials = opening.credentials
        /\ mail = opening.mail
        /\ bookedSlots = EmptyStore
        /\ budget = Budget(MaxBookings, MaxWrites, MaxFaults)
        /\ page = ParsedPage(EmptyStore, EmptyStore)

PageNext ==
    \/ DOMContentLoaded
    \/ FirebaseReady
    \/ Timeout
    \/ Reload
    \/ OnSnapshot
    \/ \E slot \in Slots : selectSlot(slot[1], slot[2])
    \/ closeBookingModal
    \/ \E accessCode \in AccessCodes, isClassBooking \in BOOLEAN :
          handleBookingSubmit(accessCode, isClassBooking)
    \/ \E bookingId \in DOMAIN page.myBookings : confirmCancelBooking(bookingId)
    \/ \E id \in DOMAIN triggers : OnCreated_Validate(id) /\ UNCHANGED page
    \/ \E id \in DOMAIN triggers : OnBookingDeleted(id) /\ UNCHANGED page

\* one visitor's page, the store and the handlers its writes fire
PageSpec == PageInit /\ [][PageNext]_vars

(* ---- vocabulary of the properties ---- *)

Ids == DOMAIN bookings

IsActive(id) == bookings[id].status \in {"pending", "confirmed"}

SlotKey(id) == <<ResourceOf(bookings[id]), bookings[id].date, bookings[id].time>>

\* no handler of document id is in flight or waiting
Quiet(id) == triggers[id] = <<>>

AllQuiet == \A id \in DOMAIN triggers : Quiet(id)

\* the onCreate handler of document id has ended
CreateHandlerEnded(id) ==
    \A k \in DOMAIN triggers[id] : triggers[id][k].kind # "create"

CredentialIds == DOMAIN credentials

CredentialsOf(id) == {c \in CredentialIds : credentials[c].bookingId = id}

\* the clients have created documents and written nothing else
OnlyCreates == budget.writes - budget.creates = MaxWrites - MaxBookings

\* the mails of one template queued for document id
MailsOf(id, name) == {m \in BagToSet(mail) : m.bookingId = id /\ m.template = name}

(* ---- C1 ---- *)

\* C1: in every reachable state at most one booking with status pending or
\* confirmed occupies a given (resourceId, date, time).
C1_NoDoubleBooking ==
    \A a \in Ids, b \in Ids :
        (a # b /\ IsActive(a) /\ IsActive(b)) => SlotKey(a) # SlotKey(b)

(* ---- C2 ---- *)

\* two bookings were created pending for the same slot with a mapped resource
\* and an address, nothing else was written, and every handler has ended
TwoPendingCreatesDone ==
    /\ nextId = 3
    /\ budget.writes = MaxWrites - 2
    /\ Ids = {1, 2}
    /\ AllQuiet
    /\ \A id \in Ids :
        /\ bookings[id].status # Undefined
        /\ CanCreateCredential(ResourceOf(bookings[id]))
        /\ MailTo(bookings[id]) # Undefined
    /\ SlotKey(1) = SlotKey(2)

\* C2: when pending bookings are created for the same free slot and the
\* gateway succeeds, after all onBookingCreated runs exactly one of them is
\* confirmed and every other one is in conflict.
C2_ExactlyOneConfirmed ==
    TwoPendingCreatesDone =>
        \E w \in Ids :
            /\ bookings[w].status = "confirmed"
            /\ \A l \in Ids \ {w} : bookings[l].status = "conflict"

(* ---- C3 ---- *)

\* C3: for every booking in every reachable state the inlet sub-record is
\* present if and only if the status is confirmed.
C3_CredentialIffConfirmed ==
    \A id \in Ids : HasCredential(bookings[id]) <=> bookings[id].status = "confirmed"

(* ---- C4 ---- *)

\* the booking no longer uses credential c and its handlers have ended
LifeOver(c) ==
    LET id == credentials[c].bookingId
    IN /\ Quiet(id)
       /\ \/ id \notin Ids
          \/ bookings[id].status = "cancelled"
          \/ bookings[id].inlet.credentialId # c

\* C4: for every booking that held a credential, revokeInletCredential is
\* invoked exactly once with that credential's id over the booking's life:
\* never twice, and not zero times once the booking has given it up.
C4_RevokedExactlyOnce ==
    \A c \in CredentialIds :
        credentials[c].held =>
            /\ credentials[c].revokeCalls <= 1
            /\ LifeOver(c) => credentials[c].revokeCalls = 1

(* ---- C5 ---- *)

\* C5: a reschedule of a confirmed booking that holds a credential makes
\* exactly one revoke call, with the old credential id, and exactly one create
\* call, also when two reschedules are written before the first handler has
\* written its replacement: once the handlers have ended, the credential on
\* the record has never been revoked and every credential it replaced has
\* been revoked exactly once.
C5_RescheduleReplaces ==
    \A id \in Ids :
        (bookings[id].status = "confirmed" /\ Quiet(id)) =>
            \A c \in CredentialsOf(id) :
                credentials[c].revokeCalls =
                    IF bookings[id].inlet.credentialId = c THEN 0 ELSE 1

(* ---- C6 ---- *)

\* C6: whenever no handler is in flight, every credential the gateway has
\* issued and not revoked is the credential recorded on exactly one existing
\* booking.
C6_NoOrphanedCredential ==
    AllQuiet =>
        \A c \in CredentialIds :
            credentials[c].revokeCalls = 0 =>
                Cardinality({id \in Ids : bookings[id].inlet.credentialId = c}) = 1

(* ---- C7 ---- *)

StatusEdges ==
    {<<"pending", "confirmed">>, <<"pending", "conflict">>, <<"pending", "error">>,
     <<"confirmed", "cancelled">>, <<"confirmed", "confirmed">>}

\* C7: a handler write changes a booking's status only along pending ->
\* confirmed, pending -> conflict, pending -> error, confirmed -> cancelled
\* or confirmed -> confirmed; never confirmed -> error, nor cancelled,
\* conflict or error -> confirmed.
C7_StatusEdges ==
    [][budget.writes' = budget.writes =>
        \A id \in Ids \cap DOMAIN bookings' :
            \/ bookings'[id].status = bookings[id].status
            \/ <<bookings[id].status, bookings'[id].status>> \in StatusEdges]_vars

(* ---- C8 ---- *)

\* C8: every booking created with status pending ends with another status
\* (confirmed, conflict or error) once its create handler has ended, whatever
\* the outcome of the availability query, the credential creation, the store
\* writes and the notification enqueue.
C8_NeverLeftPending ==
    \A id \in Ids : CreateHandlerEnded(id) => bookings[id].status # "pending"

(* ---- C9 ---- *)

\* document id was created pending, for a mapped resource and with an address,
\* on a slot no other booking has been active on; the clients have written
\* nothing but new documents, and the create handler of id has ended
CreatedAloneOnSlot(id) ==
    /\ OnlyCreates
    /\ bookings[id].status # Undefined
    /\ CanCreateCredential(ResourceOf(bookings[id]))
    /\ MailTo(bookings[id]) # Undefined
    /\ \A o \in Ids \ {id} : bookings[o].status = Undefined
    /\ CreateHandlerEnded(id)

HandlerStepped(id) ==
    /\ triggers[id] # <<>>
    /\ triggers'[id] = <<>> \/ Head(triggers'[id]) # Head(triggers[id])

\* another booking holds the slot of the created document with status confirmed
OtherConfirmedOnSlot(id) ==
    \E o \in Ids \ {id} :
        /\ bookings[o].status = "confirmed"
        /\ bookings[o].date = InFlight(id).after.date
        /\ bookings[o].time = InFlight(id).after.time

\* C10: when a pending booking is created for a (date, time) that another
\* booking holds with status confirmed, the create handler sets status to
\* conflict with error 'Time slot is no longer available', calls the gateway
\* not at all and queues no mail.
C10_ConflictOnTakenSlot ==
    [][\A id \in DOMAIN triggers :
        (HandlerStepped(id) /\ InFlight(id).kind = "create") =>
            /\ (/\ InFlight(id).pc = "start"
                /\ InFlight(id).after.status = "pending"
                /\ OtherConfirmedOnSlot(id))
               => /\ triggers'[id] # <<>>
                  /\ Head(triggers'[id]).pc = "writeConflict"
                  /\ credentials' = credentials
                  /\ mail' = mail
            /\ (InFlight(id).pc = "writeConflict" /\ id \in Ids)
               => /\ bookings'[id].status = "conflict"
                  /\ bookings'[id].error = SlotTakenMsg
                  /\ ~HasCredential(bookings'[id])
                  /\ \A k \in DOMAIN triggers'[id] : triggers'[id][k].kind # "create"
                  /\ credentials' = credentials
                  /\ CredentialsOf(id) = {}
                  /\ mail' = mail
                  /\ MailsOf(id, "booking-confirmation") = {}]_vars

\* a booking in conflict next to the confirmed booking that holds its slot
C10_Witness ==
    \E id \in Ids, o \in Ids :
        /\ bookings[id].status = "conflict"
        /\ bookings[id].error = SlotTakenMsg
        /\ bookings[o].status = "confirmed"
        /\ bookings[o].date = bookings[id].date
        /\ bookings[o].time = bookings[id].time
        /\ CreateHandlerEnded(id)

(* ---- C11 ---- *)

\* the create handler of document id is in its catch block because
\* createInletCredential threw
CredentialCreationFailed(id) ==
    /\ InFlight(id).kind = "create"
    /\ InFlight(id).pc = "catch"
    /\ InFlight(id).error = NoMappingMsg(ResourceOf(InFlight(id).after))

\* C11: when createInletCredential fails during the create handler, the
\* handler sets status to error and error to the failure message, records no
\* credential on the booking and queues no mail.
C11_ErrorOnCredentialFailure ==
    [][\A id \in DOMAIN triggers :
        (HandlerStepped(id) /\ CredentialCreationFailed(id) /\ id \in Ids) =>
            /\ bookings'[id].status = "error"
            /\ bookings'[id].error = "No INLET lock mapping for resource: other"
            /\ ~HasCredential(bookings'[id])
            /\ CredentialsOf(id) = {}
            /\ credentials' = credentials
            /\ mail' = mail
            /\ {m \in BagToSet(mail) : m.bookingId = id} = {}]_vars

\* a booking of a resource without lock mapping after its create handler
C11_Witness ==
    \E id \in Ids :
        /\ CreateHandlerEnded(id)
        /\ bookings[id].resourceId = "other"
        /\ bookings[id].status = "error"
        /\ bookings[id].error = NoMappingMsg("other")
        /\ ~HasCredential(bookings[id])

(* ---- C12 ---- *)

\* C12: onBookingCreated for a booking whose status is not pending (also one
\* without status field) returns at once: no store write, no availability
\* query (so no failure of one), no gateway call and no mail.
C12_NonPendingIsNoOp ==
    [][\A id \in DOMAIN triggers :
        (/\ HandlerStepped(id)
         /\ InFlight(id).kind = "create"
         /\ InFlight(id).pc = "start"
         /\ InFlight(id).after.status # "pending") =>
            /\ triggers'[id] = Tail(triggers[id])
            /\ bookings' = bookings
            /\ credentials' = credentials
            /\ mail' = mail
            /\ budget' = budget
            /\ uncaught' = uncaught]_vars

\* a document without status after its create handler, untouched
C12_Witness ==
    \E id \in Ids :
        /\ bookings[id].status = Undefined
        /\ Quiet(id)
        /\ budget.writes = MaxWrites - 1
        /\ bookings[id].error = Undefined
        /\ ~HasCredential(bookings[id])

(* ---- C13 ---- *)

\* the update handler in flight for document id takes a step at pc
UpdateStepAt(id, pc) ==
    /\ HandlerStepped(id)
    /\ InFlight(id).kind = "update"
    /\ InFlight(id).pc = pc

\* the update in flight for document id set status to cancelled
BecameCancelled(id) ==
    /\ InFlight(id).after.status = "cancelled"
    /\ InFlight(id).before.status # "cancelled"

\* the gateway after exactly one revoke call, made with id c, and no create
RevokedOnly(c) ==
    /\ Len(credentials') = Len(credentials)
    /\ \A k \in CredentialIds :
        credentials'[k].revokeCalls =
            credentials[k].revokeCalls + (IF k = c THEN 1 ELSE 0)

CancellationMails == {m \in BagToSet(mail) : m.template = "booking-cancellation"}

\* C13: the handler of an update that sets status to cancelled on a booking
\* that was not cancelled revokes the booking's prior credential if there is
\* one, queues exactly one booking-cancellation mail and creates no
\* credential; the handler of an update of a booking that was already
\* cancelled queues no booking-cancellation mail.
C13_CancellationRevokesAndNotifies ==
    [][\A id \in DOMAIN triggers :
        /\ (UpdateStepAt(id, "start") /\ BecameCancelled(id)) =>
              /\ triggers'[id] # <<>>
              /\ Head(triggers'[id]).pc =
                    IF HasCredential(InFlight(id).before)
                    THEN "cancelRevoke" ELSE "cancelEmail"
              /\ credentials' = credentials
              /\ mail' = mail
        /\ UpdateStepAt(id, "cancelRevoke") =>
              /\ RevokedOnly(InFlight(id).before.inlet.credentialId)
              /\ triggers'[id] # <<>>
              /\ Head(triggers'[id]).pc = "cancelEmail"
              /\ mail' = mail
        /\ UpdateStepAt(id, "cancelEmail") =>
              /\ BagCardinality(mail') = BagCardinality(mail) + 1
              /\ \E m \in BagToSet(mail') :
                    /\ m.template = "booking-cancellation"
                    /\ m.bookingId = id
                    /\ CopiesIn(m, mail') = CopiesIn(m, mail) + 1
              /\ credentials' = credentials
        /\ (/\ HandlerStepped(id)
            /\ InFlight(id).kind = "update"
            /\ InFlight(id).before.status = "cancelled") =>
              \A m \in BagToSet(mail') :
                  m.template = "booking-cancellation" =>
                      CopiesIn(m, mail') = CopiesIn(m, mail)]_vars

(* ---- C14 ---- *)

\* the update in flight for document id set status to cancelled and changed
\* the date or the time
CancelledAndMoved(id) ==
    /\ InFlight(id).kind = "update"
    /\ BecameCancelled(id)
    /\ \/ InFlight(id).before.date # InFlight(id).after.date
       \/ InFlight(id).before.time # InFlight(id).after.time

\* C14: when one update sets status to cancelled and changes date or time,
\* only the cancellation path runs: the credential is revoked, no replacement
\* credential is created and no booking-update mail is queued.
C14_CancellationTakesPrecedence ==
    [][\A id \in DOMAIN triggers :
        (HandlerStepped(id) /\ CancelledAndMoved(id)) =>
            /\ InFlight(id).pc \in {"start", "cancelRevoke", "cancelEmail"}
            /\ InFlight(id).pc = "start" =>
                  /\ triggers'[id] # <<>>
                  /\ Head(triggers'[id]).pc =
                        IF HasCredential(InFlight(id).before)
                        THEN "cancelRevoke" ELSE "cancelEmail"
                  /\ credentials' = credentials
            /\ InFlight(id).pc = "cancelRevoke" =>
                  RevokedOnly(InFlight(id).before.inlet.credentialId)
            /\ InFlight(id).pc = "cancelEmail" => credentials' = credentials
            /\ bookings' = bookings
            /\ \A m \in BagToSet(mail') :
                  m.template = "booking-update" => CopiesIn(m, mail') = CopiesIn(m, mail)]_vars

\* a confirmed booking that one update cancelled and moved: its handler has
\* ended, its credential is revoked and it is the only credential ever created
C14_Witness ==
    \E id \in Ids :
        /\ budget.writes = MaxWrites - 2
        /\ nextId = 2
        /\ bookings[id].status = "cancelled"
        /\ <<bookings[id].date, bookings[id].time>> \notin {NewSlot, OtherSlot}
        /\ Quiet(id)
        /\ HasCredential(bookings[id])
        /\ credentials[bookings[id].inlet.credentialId].revokeCalls = 1
        /\ Len(credentials) = 1
        /\ MailsOf(id, "booking-cancellation") # {}
        /\ MailsOf(id, "booking-update") = {}

(* ---- C15 ---- *)

\* another booking holds, pending or confirmed, the slot document id moved to
TargetSlotHeld(id) ==
    \E o \in Ids \ {id} :
        /\ IsActive(o)
        /\ bookings[o].date = InFlight(id).after.date
        /\ bookings[o].time = InFlight(id).after.time

\* C15: a reschedule checks the availability of the new slot (leaving out the
\* booking itself): a confirmed booking moved to a slot that another pending
\* or confirmed booking holds gets no replacement credential for that slot.
C15_RescheduleChecksAvailability ==
    [][\A id \in DOMAIN triggers :
        (/\ UpdateStepAt(id, "changeCreate")
         /\ InFlight(id).before.status = "confirmed"
         /\ TargetSlotHeld(id)) => credentials' = credentials]_vars

(* ---- C16 ---- *)

\* the step changes the participants or the participantCount of document id
ParticipantsWritten(id) ==
    /\ id \in Ids
    /\ id \in DOMAIN bookings'
    /\ \/ bookings'[id].participants # bookings[id].participants
       \/ bookings'[id].participantCount # bookings[id].participantCount

\* C16: a class join that is rejected, because the page's copy of the booking
\* is missing, is not a class or has participantCount >= maxParticipants,
\* writes nothing: participants and participantCount of every booking change
\* only in a join the page's tests accept.
C16_RejectedJoinWritesNothing ==
    [][\A id \in DOMAIN triggers :
        ParticipantsWritten(id) =>
            /\ id \in DOMAIN bookedSlots
            /\ bookedSlots[id].participantCount < bookedSlots[id].maxParticipants]_vars

\* a class that is full in the store and on the page, where a join is rejected
C16_Witness ==
    \E id \in Ids \cap DOMAIN bookedSlots :
        /\ bookedSlots[id].participantCount = 2
        /\ bookedSlots[id].maxParticipants = 2
        /\ bookings[id].participants = <<"host", "guest">>
        /\ bookings[id].participantCount = 2
        /\ budget.writes > 0

(* ---- C17 ---- *)

\* the step is a join that wrote to document id: a client write that leaves
\* the document in place with its status, date and time
JoinWrote(id) ==
    /\ id \in Ids
    /\ id \in DOMAIN bookings'
    /\ budget.writes' = budget.writes - 1
    /\ Len(triggers'[id]) = Len(triggers[id]) + 1
    /\ bookings'[id].status = bookings[id].status
    /\ bookings'[id].date = bookings[id].date
    /\ bookings'[id].time = bookings[id].time

\* C17: every join that writes appends exactly one name to the stored
\* participants and adds exactly one to the stored participantCount, relative
\* to the store's value at the time of the write, also when the page's copy
\* was read before an earlier join was written.
C17_JoinAddsOne ==
    [][\A id \in DOMAIN triggers :
        JoinWrote(id) =>
            /\ Len(bookings'[id].participants) = Len(bookings[id].participants) + 1
            /\ SubSeq(bookings'[id].participants, 1, Len(bookings[id].participants))
                  = bookings[id].participants
            /\ bookings'[id].participantCount = bookings[id].participantCount + 1]_vars

(* ---- C19 ---- *)

\* what the gateway holds: the credentials and whether each is revoked
GatewayState ==
    [c \in CredentialIds |->
        [accessCode |-> credentials[c].accessCode,
         lockId |-> credentials[c].lockId,
         startTime |-> credentials[c].startTime,
         endTime |-> credentials[c].endTime,
         revoked |-> credentials[c].revokeCalls > 0]]

\* the handler in flight for document id is about to call
\* revokeInletCredential
AtRevokeCall(id) ==
    \/ InFlight(id).kind = "update" /\ InFlight(id).pc \in {"cancelRevoke", "changeRevoke"}
    \/ InFlight(id).kind = "delete" /\ HasCredential(InFlight(id).before)

\* C19: a call of revokeInletCredential with an id that was already revoked
\* returns success and leaves the gateway as the first call left it; the
\* delete handler that makes such a call does not fail.
C19_RevokeIsIdempotent ==
    [][\A id \in DOMAIN triggers :
        (/\ HandlerStepped(id)
         /\ AtRevokeCall(id)
         /\ credentials[InFlight(id).before.inlet.credentialId].revokeCalls >= 1) =>
            /\ GatewayState' = GatewayState
            /\ uncaught' = uncaught
            /\ InFlight(id).kind = "delete" => triggers'[id] = Tail(triggers[id])
            /\ InFlight(id).kind = "update" =>
                  /\ triggers'[id] # <<>>
                  /\ Head(triggers'[id]).pc \in {"cancelEmail", "changeCreate"}]_vars

\* a credential revoked by the cancellation and again by the delete handler,
\* which returned normally
C19_Witness ==
    \E c \in CredentialIds :
        /\ credentials[c].revokeCalls = 2
        /\ credentials[c].bookingId \notin Ids
        /\ Quiet(credentials[c].bookingId)
        /\ uncaught = {}

(* ---- C20 ---- *)

\* C20: no run of onBookingCreated, onBookingUpdated or onBookingDeleted
\* ends with an uncaught exception.
C20_NoUncaughtException == uncaught = {}

(* ---- C18 ---- *)

\* C18: for every class booking in every reachable state, participantCount
\* equals the length of participants and does not exceed maxParticipants.
C18_CountWithinCapacity ==
    \A id \in Ids :
        bookings[id].isClass =>
            /\ bookings[id].participantCount = Len(bookings[id].participants)
            /\ bookings[id].participantCount <= bookings[id].maxParticipants

(* ---- C21 ---- *)

\* the create handler of document id is in its catch block after it recorded
\* the credential on the booking: queueConfirmationEmail threw
ConfirmationMailFailed(id) ==
    /\ InFlight(id).kind = "create"
    /\ InFlight(id).pc = "catch"
    /\ InFlight(id).credential # NoCredential
    /\ credentials[InFlight(id).credential.id].held

\* C21: when queueing the confirmation mail fails after the credential was
\* issued and the booking was written as confirmed, the booking keeps status
\* confirmed and keeps its credential.
C21_MailFailureKeepsConfirmed ==
    [][\A id \in DOMAIN triggers :
        (/\ HandlerStepped(id)
         /\ ConfirmationMailFailed(id)
         /\ id \in Ids
         /\ bookings[id].status = "confirmed") =>
            /\ id \in DOMAIN bookings'
            /\ bookings'[id].status = "confirmed"
            /\ bookings'[id].inlet = bookings[id].inlet
            /\ credentials' = credentials]_vars

(* ---- C23 ---- *)

\* the ids a store query may be asked to leave out: the documents ever
\* created, and 0 for none
ExcludableIds == DOMAIN triggers \cup {0}

\* C23: for every store content and every (date, time, excludeBookingId),
\* validateSlotFree returns false if and only if the store holds a booking
\* with that date and time, status confirmed or pending and another id;
\* bookings with status conflict, error or cancelled (or none) never make it
\* return false.
C23_ValidateSlotFree ==
    \A slot \in Slots, excludeBookingId \in ExcludableIds :
        /\ ~validateSlotFree(slot[1], slot[2], excludeBookingId) <=>
              \E id \in Ids \ {excludeBookingId} :
                  /\ <<bookings[id].date, bookings[id].time>> = slot
                  /\ bookings[id].status \in {"confirmed", "pending"}
        /\ (\A id \in Ids \ {excludeBookingId} :
                <<bookings[id].date, bookings[id].time>> = slot =>
                    bookings[id].status \in {"conflict", "error", "cancelled", Undefined})
              => validateSlotFree(slot[1], slot[2], excludeBookingId)

\* a confirmed booking and a booking in conflict on one slot: the slot is
\* free for the confirmed booking itself and taken for everybody else
C23_Witness ==
    \E a \in Ids, b \in Ids :
        /\ bookings[a].status = "confirmed"
        /\ bookings[b].status = "conflict"
        /\ bookings[a].date = bookings[b].date
        /\ bookings[a].time = bookings[b].time
        /\ validateSlotFree(bookings[a].date, bookings[a].time, a)
        /\ ~validateSlotFree(bookings[a].date, bookings[a].time, b)
        /\ ~validateSlotFree(bookings[a].date, bookings[a].time, 0)

(* ---- C24 ---- *)

\* the slot of document id starts earlier than the current time plus the
\* lead time
WithinLeadTime(id) ==
    parseBookingDateTime(bookings[id].date, bookings[id].time) < Now + LeadMinutes

\* C24: a booking whose slot starts earlier than the current time plus the
\* lead time of 4 hours is never granted: the create handler confirms no such
\* booking, and the booking page writes none.
C24_LeadTimeHonoured ==
    [][\A id \in DOMAIN bookings' :
        LET start == parseBookingDateTime(bookings'[id].date, bookings'[id].time)
        IN /\ (/\ id \in Ids
               /\ bookings[id].status = "pending"
               /\ bookings'[id].status = "confirmed") => ~(start < Now + LeadMinutes)
           /\ (id \notin Ids /\ bookings'[id].status = Undefined)
                 => ~(start < Now + LeadMinutes)]_vars

(* ---- C26 ---- *)

\* C26: for every booking with status cancelled, once its handlers have run
\* to completion the record holds no credential and the gateway holds no
\* unrevoked credential issued for that booking.
C26_CancelledHoldsNoCredential ==
    \A id \in Ids :
        (bookings[id].status = "cancelled" /\ Quiet(id)) =>
            /\ ~HasCredential(bookings[id])
            /\ \A c \in CredentialsOf(id) : credentials[c].revokeCalls >= 1

(* ---- C27 ---- *)

\* the update handler of document id ends handleTimeChange: it has revoked,
\* created and recorded, and takes its last step, queueUpdateEmail
TimeChangeCompletes(id) == UpdateStepAt(id, "changeEmail")

\* C27: when the reschedule handler completes for a booking that held a
\* credential, the record's credential is the newly created one, not the old
\* one, and the handler has queued exactly one booking-update mail, which
\* carries the access code now stored on the record.
C27_RescheduleRecordsAndNotifies ==
    [][\A id \in DOMAIN triggers :
        TimeChangeCompletes(id) =>
            LET t == InFlight(id)
            IN /\ HasCredential(t.before)
               /\ t.credential.id # t.before.inlet.credentialId
               /\ credentials[t.credential.id].bookingId = id
               /\ credentials[t.credential.id].revokeCalls = 0
               /\ id \in Ids =>
                     /\ bookings[id].inlet.credentialId = t.credential.id
                     /\ bookings[id].inlet.code = credentials[t.credential.id].accessCode
               /\ BagCardinality(mail') = BagCardinality(mail) + 1
               /\ \E m \in BagToSet(mail') :
                     /\ CopiesIn(m, mail') = CopiesIn(m, mail) + 1
                     /\ m.template = "booking-update"
                     /\ m.bookingId = id
                     /\ m.to = MailTo(t.after)
                     /\ m.accessCode = credentials[t.credential.id].accessCode]_vars

(* ---- C28 ---- *)

\* the update in flight for document id changed the date or the time
Moved(id) ==
    \/ InFlight(id).before.date # InFlight(id).after.date
    \/ InFlight(id).before.time # InFlight(id).after.time

\* the update handler of document id returns and has done nothing
ReturnsUntouched(id) ==
    /\ triggers'[id] = Tail(triggers[id])
    /\ bookings' = bookings
    /\ credentials' = credentials
    /\ mail' = mail
    /\ uncaught' = uncaught

\* C28 as claimed: the handler of an update that changes date or time of a
\* booking with no credential on its prior state calls the gateway not at
\* all, writes nothing and queues no mail.
C28_MoveWithoutCredentialIsNoOp ==
    [][\A id \in DOMAIN triggers :
        (/\ HandlerStepped(id)
         /\ InFlight(id).kind = "update"
         /\ Moved(id)
         /\ ~HasCredential(InFlight(id).before)) => ReturnsUntouched(id)]_vars

\* C28, amended: the handler of an update that changes date or time of a
\* booking with no credential on its prior state, and that does not newly
\* set status to cancelled, calls the gateway not at all, writes nothing and
\* queues no mail.
C28_PlainMoveWithoutCredentialIsNoOp ==
    [][\A id \in DOMAIN triggers :
        (/\ HandlerStepped(id)
         /\ InFlight(id).kind = "update"
         /\ Moved(id)
         /\ ~BecameCancelled(id)
         /\ ~HasCredential(InFlight(id).before)) => ReturnsUntouched(id)]_vars

\* a booking without credential that was moved and whose handlers have ended
C28_Witness ==
    \E id \in Ids :
        /\ nextId = 2
        /\ budget.writes = MaxWrites - 2
        /\ bookings[id].status = Undefined
        /\ <<bookings[id].date, bookings[id].time>> # NewSlot
        /\ Quiet(id)
        /\ credentials = <<>>
        /\ mail = EmptyBag

(* ---- C29 ---- *)

\* C29: the handler of an update that changes neither date nor time and does
\* not newly set status to cancelled (a class join, for one) calls the
\* gateway not at all, queues no mail and writes nothing.
C29_OtherUpdateIsNoOp ==
    [][\A id \in DOMAIN triggers :
        (/\ HandlerStepped(id)
         /\ InFlight(id).kind = "update"
         /\ ~Moved(id)
         /\ ~BecameCancelled(id)) => ReturnsUntouched(id)]_vars

\* a confirmed class that a visitor joined: its handlers have ended, it has
\* the credential and the one mail of its confirmation
C29_Witness ==
    \E id \in Ids :
        /\ bookings[id].status = "confirmed"
        /\ bookings[id].participants = <<"host", "guest">>
        /\ Quiet(id)
        /\ Len(credentials) = 1
        /\ credentials[1].revokeCalls = 0
        /\ BagCardinality(mail) = 1

(* ---- C30 ---- *)

\* C30: the delete handler revokes the credential of the deleted record if
\* and only if the record carried a credential id, and queues no mail.
C30_DeleteRevokesIffCredential ==
    [][\A id \in DOMAIN triggers :
        (HandlerStepped(id) /\ InFlight(id).kind = "delete") =>
            /\ IF InFlight(id).before.inlet.credentialId # 0
               THEN RevokedOnly(InFlight(id).before.inlet.credentialId)
               ELSE credentials' = credentials
            /\ mail' = mail
            /\ bookings' = bookings
            /\ triggers'[id] = Tail(triggers[id])]_vars

\* a confirmed booking that was deleted: its credential is revoked once and
\* nothing but its confirmation was ever mailed
C30_Witness ==
    \E c \in CredentialIds :
        /\ credentials[c].bookingId \notin Ids
        /\ Quiet(credentials[c].bookingId)
        /\ credentials[c].held
        /\ credentials[c].revokeCalls = 1
        /\ budget.writes = MaxWrites - 2
        /\ nextId = 2
        /\ BagCardinality(mail) = 1

(* ---- C31 ---- *)

\* the handler in flight for document id is about to call
\* createInletCredential
AtCreateCall(id) ==
    \/ InFlight(id).kind = "create" /\ InFlight(id).pc = "createCredential"
    \/ InFlight(id).kind = "update" /\ InFlight(id).pc = "changeCreate"

SlotFreeFor(id) ==
    \A o \in Ids \ {id} :
        (/\ bookings[o].date = InFlight(id).after.date
         /\ bookings[o].time = InFlight(id).after.time) => ~IsActive(o)

\* the step writes status confirmed or an inlet sub-record to document id
ConfirmedWritten(id) ==
    /\ id \in Ids
    /\ id \in DOMAIN bookings'
    /\ \/ bookings'[id].status = "confirmed" /\ bookings[id].status # "confirmed"
       \/ bookings'[id].inlet # bookings[id].inlet

\* C32: within every run of the create handler the steps happen in a fixed
\* order: the gateway is called only after the availability check returned
\* free, status confirmed is written only after the credential was created,
\* and the confirmation mail is queued only after the confirmed write.
C32_StepsInOrder ==
    [][\A id \in DOMAIN triggers :
        (HandlerStepped(id) /\ InFlight(id).kind = "create") =>
            LET t == InFlight(id)
            IN /\ (triggers'[id] # <<>> /\ Head(triggers'[id]).pc = "createCredential") =>
                    /\ t.pc = "start"
                    /\ SlotFreeFor(id)
                    /\ credentials' = credentials
               /\ credentials' # credentials =>
                    \/ /\ t.pc = "createCredential"
                       /\ t.credential = NoCredential
                       /\ Len(credentials') = Len(credentials) + 1
                       /\ SubSeq(credentials', 1, Len(credentials)) = credentials
                       /\ ~ConfirmedWritten(id)
                       /\ mail' = mail
                    \/ /\ t.pc = "writeConfirmed"
                       /\ Len(credentials') = Len(credentials)
               /\ ConfirmedWritten(id) =>
                    /\ t.pc = "writeConfirmed"
                    /\ t.credential.id \in CredentialIds
                    /\ credentials[t.credential.id].bookingId = id
                    /\ ~credentials[t.credential.id].held
                    /\ bookings'[id].inlet.credentialId = t.credential.id
                    /\ mail' = mail
               /\ mail' # mail =>
                    /\ t.pc = "queueEmail"
                    /\ t.credential.id \in CredentialIds
                    /\ credentials[t.credential.id].held
                    /\ credentials' = credentials
                    /\ bookings' = bookings]_vars

\* a run of the create handler that went through all four steps: the
\* credential issued for the booking is recorded on it and the confirmation
\* mail carries its code
C32_Witness ==
    \E id \in Ids, c \in CredentialIds :
        /\ CreateHandlerEnded(id)
        /\ credentials[c].bookingId = id
        /\ credentials[c].held
        /\ bookings[id].inlet.credentialId = c
        /\ \E m \in MailsOf(id, "booking-confirmation") :
              m.accessCode = credentials[c].accessCode
        /\ \E o \in Ids \ {id} : bookings[o].status = "conflict"

(* ---- C33 ---- *)

\* the step is a createInletCredential call of the handler in flight for
\* document id that issued a credential
CredentialCreated(id) ==
    /\ HandlerStepped(id)
    /\ AtCreateCall(id)
    /\ Len(credentials') = Len(credentials) + 1

\* C33: every credential created, by the create handler and by the
\* reschedule handler, has startTime equal to the instant of the date and
\* time of the booking the handler acts on (the new values of the update on
\* reschedule) and endTime exactly 60 minutes after startTime.
C33_CredentialTimes ==
    [][\A id \in DOMAIN triggers :
        CredentialCreated(id) =>
            LET t == InFlight(id)
                created == credentials'[Len(credentials')]
            IN /\ created.bookingId = id
               /\ created.startTime = parseBookingDateTime(t.after.date, t.after.time)
               /\ created.endTime = created.startTime + 60
               /\ t.kind = "update" =>
                     /\ <<t.after.date, t.after.time>> # <<t.before.date, t.before.time>>
                     /\ created.startTime #
                           parseBookingDateTime(t.before.date, t.before.time)]_vars

\* a booking moved to the next hour: the credential of its creation begins at
\* 14:00, its replacement at 15:00 of the same day, each lasts 60 minutes and
\* the replacement is the one on the record
C33_Witness ==
    \E id \in Ids, c \in CredentialIds, d \in CredentialIds :
        /\ credentials[c].bookingId = id
        /\ credentials[d].bookingId = id
        /\ credentials[c].startTime = parseBookingDateTime("2026-01-16", "14:00")
        /\ credentials[c].endTime = credentials[c].startTime + 60
        /\ credentials[d].startTime = credentials[c].endTime
        /\ credentials[d].endTime = credentials[d].startTime + 60
        /\ bookings[id].inlet.credentialId = d
        /\ <<bookings[id].date, bookings[id].time>> = OtherSlot

(* ---- C34 ---- *)

\* C34: every booking record the booking page writes is created with status
\* pending or confirmed, so every record in the store always has a status
\* that is one of pending, confirmed, conflict, error, cancelled.
C34_StatusValues ==
    \A id \in Ids :
        bookings[id].status \in {"pending", "confirmed", "conflict", "error", "cancelled"}

(* ---- C35 ---- *)

\* the update in flight for document id is a write of a handler: it set the
\* status to confirmed, conflict or error, or it changed the inlet sub-record
\* or the error message (clients write none of these)
HandlerMadeUpdate(id) ==
    LET t == InFlight(id)
    IN /\ t.kind = "update"
       /\ \/ t.after.status # t.before.status
             /\ t.after.status \in {"confirmed", "conflict", "error"}
          \/ t.after.inlet # t.before.inlet
          \/ t.after.error # t.before.error

\* C35: the store writes the handlers themselves make (status confirmed with
\* credential, status conflict or error, replacement credential on
\* reschedule) fire onBookingUpdated again, but its run for such a write makes
\* no gateway call, queues no mail and writes nothing to the store, so it
\* fires no further trigger and the chain started by a user write ends.
C35_HandlerWritesEndTheChain ==
    [][\A id \in DOMAIN triggers :
        (HandlerStepped(id) /\ HandlerMadeUpdate(id)) =>
            /\ InFlight(id).pc = "start"
            /\ triggers' = [triggers EXCEPT ![id] = Tail(@)]
            /\ bookings' = bookings
            /\ credentials' = credentials
            /\ mail' = mail
            /\ uncaught' = uncaught]_vars

\* the chain of one creation and one reschedule has ended: the handlers of
\* the confirming write and of the write of the replacement credential have
\* run, and nothing but the two credentials and the two mails came of it
C35_Witness ==
    \E id \in Ids :
        /\ nextId = 2
        /\ budget.writes = MaxWrites - 2
        /\ Quiet(id)
        /\ bookings[id].status = "confirmed"
        /\ bookings[id].inlet.credentialId = 2
        /\ Len(credentials) = 2
        /\ credentials[1].revokeCalls = 1
        /\ credentials[2].revokeCalls = 0
        /\ BagCardinality(mail) = 2
        /\ MailsOf(id, "booking-update") # {}

(* ---- C36 ---- *)

\* the step is a write of handleBookingSubmit: a new document without status
PageWrote(id) ==
    /\ id \notin Ids
    /\ id \in DOMAIN bookings'
    /\ bookings'[id].status = Undefined

\* C36: handleBookingSubmit writes a booking only when the store holds no
\* booking for its (date, time) at the time of the write, so two visitors who
\* submit the form for the same slot from two pages cannot both end with a
\* stored booking for it.
C36_PageWritesOnlyFreeSlot ==
    [][\A id \in DOMAIN bookings' :
        PageWrote(id) =>
            \A o \in Ids :
                <<bookings[o].date, bookings[o].time>> #
                    <<bookings'[id].date, bookings'[id].time>>]_vars

(* ---- C37 ---- *)

\* bookedSlots is the mirror of what the store holds now
MirrorInSync ==
    /\ page.snapshotListeners > 0
    /\ page.bookedSlots = SnapshotOf(bookings)

\* C37: the calendar and the orchestrator agree on which slots are taken: for
\* every store content mirrored into bookedSlots, isSlotBooked(date, time) is
\* true if and only if validateSlotFree(date, time) with no excluded id is
\* false.
C37_CalendarAgreesWithOrchestrator ==
    MirrorInSync =>
        \A slot \in Slots :
            isSlotBooked(slot[1], slot[2]) <=> ~validateSlotFree(slot[1], slot[2], 0)

(* ---- C38 ---- *)

\* C38: the access code handleBookingSubmit shows on the success screen for a
\* booking it saved to the store is the access code of the credential the
\* orchestrator records for that booking, once the create handler has run.
C38_ShownCodeIsCredentialCode ==
    LET id == page.modal.bookingId
    IN (/\ page.modal.kind = "confirmed"
        /\ id \in Ids
        /\ Quiet(id)) =>
            /\ HasCredential(bookings[id])
            /\ bookings[id].inlet.code = page.modal.accessCode

(* ---- C39 ---- *)

\* C39: initCalendar runs at most once per page load, so the booking form
\* has one submit handler, for every ordering of the firebase-ready event and
\* the 3-second timeout.
C39_InitCalendarOnce ==
    /\ page.initCalendarRuns <= 1
    /\ Cardinality(page.submitListeners) <= 1

(* ---- C40 ---- *)

\* the step is a run of confirmCancelBooking that ends on the screen `kind`
CancelEndedOn(kind) ==
    /\ page.modal = ClosedModal
    /\ page'.modal.kind = kind

\* C40: when deleting the booking from the store fails in
\* confirmCancelBooking, myBookings, bookedSlots and their localStorage copies
\* are left unchanged (and so is the store); when it succeeds, the booking id
\* is removed from both and every other entry stays.
C40_CancelKeepsOrRemoves ==
    [][LET bookingId == page'.modal.bookingId
       IN /\ CancelEndedOn("cancelFailed") =>
                /\ page'.myBookings = page.myBookings
                /\ page'.bookedSlots = page.bookedSlots
                /\ page'.storedMyBookings = page.storedMyBookings
                /\ page'.storedBookings = page.storedBookings
                /\ bookingId \in DOMAIN page.myBookings
                /\ bookings' = bookings
          /\ CancelEndedOn("cancelled") =>
                /\ bookingId \in DOMAIN page.myBookings
                /\ DOMAIN page'.myBookings = DOMAIN page.myBookings \ {bookingId}
                /\ DOMAIN page'.bookedSlots = DOMAIN page.bookedSlots \ {bookingId}
                /\ \A id \in DOMAIN page'.myBookings :
                      page'.myBookings[id] = page.myBookings[id]
                /\ \A id \in DOMAIN page'.bookedSlots :
                      page'.bookedSlots[id] = page.bookedSlots[id]
                /\ page'.storedMyBookings = page'.myBookings
                /\ page'.storedBookings = page'.bookedSlots
                /\ page.firebaseReady => bookingId \notin DOMAIN bookings']_vars

\* the error screen of a cancellation whose delete failed: the booking is
\* still in the store, in myBookings, in bookedSlots and in both copies
C40_Witness ==
    LET bookingId == page.modal.bookingId
    IN /\ page.modal.kind = "cancelFailed"
       /\ bookingId \in Ids
       /\ bookingId \in DOMAIN page.myBookings
       /\ bookingId \in DOMAIN page.bookedSlots
       /\ bookingId \in DOMAIN page.storedMyBookings
       /\ bookingId \in DOMAIN page.storedBookings

====
